---- MODULE Spec2Model ----
(***************************************************************************)
(* Model of the StickStack task execution orchestrator                      *)
(* (backend services/claude.ts as found in src/unnamed/part_007, lines      *)
(* 91-519) together with its callers, the PATCH and DELETE handlers of the  *)
(* task router (src/backend/src/routes/prd.ts, lines 151-248) and the       *)
(* storage functions it uses (src/backend/src/services/database.ts).        *)
(*                                                                          *)
(* Node runs every callback to completion: one action of this model is one  *)
(* macrotask (an HTTP handler, a stdout/stderr data callback, a close or    *)
(* error callback) together with the promise continuations it triggers.     *)
(***************************************************************************)
EXTENDS Integers, Sequences, FiniteSets, TLC

\* ------------------------------------------------------------------ bounds

\* Callbacks (HTTP handlers, data, close and error callbacks) run in one
\* behaviour.
MaxSteps == 6
\* Largest ralph_max_iterations a task is configured with.
MaxIter == 2
MaxTasks == 2
MaxChunks == 2
MaxSegments == 2
MaxEdits == 2
MaxStepsTwo == 4

\* ------------------------------------------------------------- vocabulary

TaskIds == {"t1"}

\* TaskStatus of types/index.ts; 'backlog' behaves as 'todo' everywhere in the
\* orchestrator (it is only ever compared with 'in_progress').
Statuses == {"todo", "in_progress", "done"}

\* close(code): 0, a non-zero exit code, or null (ended by a signal).
ExitCodes == {"0", "1", "null"}
Titles == {"A", "B"}

\* Texts are sequences of lexemes: an opening or closing promise marker (in
\* lower or upper case), white space (" " or a newline "\n"), or a word.
OpenMarkers == {"<promise>", "<PROMISE>"}
CloseMarkers == {"</promise>", "</PROMISE>"}
White == {" ", "\n"}

DONE == <<"DONE">>
TASK_COMPLETE == <<"TASK_COMPLETE">>

\* What one stdout data callback may carry.
StdoutChunks == { <<"<promise>", " ", "done", "</promise>">> }
\* What one stderr data callback may carry (with / without an error marker).
StderrChunks == { <<"Error">>, <<"progress">> }

NoTask ==
  [ exists |-> FALSE, status |-> "todo", ralph_enabled |-> FALSE,
    ralph_max_iterations |-> 1, ralph_completion_promise |-> <<>>,
    ralph_current_iteration |-> 0, ralph_status |-> "null",
    claude_output |-> <<>> ]

VARIABLES
  db,                \* storage: task id -> task record (NoTask when absent)
  activeProcesses,   \* task id -> pid registered, 0 when no entry
  activeRalphLoops,  \* task id -> token (the run that created it), 0 when no entry
  cancelled,         \* token -> its cancelled flag (one slot per run)
  runs,              \* every run started so far (index = run id)
  procs,             \* every process spawned so far (index = pid)
  events,            \* lifecycle events broadcast so far, in order
  tick,              \* pid whose spawn failure is reported on the next tick, or 0
  fresh,             \* pid spawned by the latest callback (its output comes next), or 0
  steps,             \* callbacks run so far
  analysis,          \* the state of one analyzeCodebase call
  detect             \* a call of checkCompletionPromise: its arguments and result

vars ==
  <<db, activeProcesses, activeRalphLoops, cancelled, runs, procs, events,
    tick, fresh, steps, analysis, detect>>

\* The program state as one value, so that the code's statement sequences can
\* be written as compositions.  Every callback starts from Cur: no process is
\* fresh unless this callback spawns one.  The last three fields live for one
\* callback only: the storage writes the orchestrator has made in it, the
\* write that fails (0: none does) and whether an exception is being thrown.
Cur ==
  [ db |-> db, ap |-> activeProcesses, arl |-> activeRalphLoops,
    cancelled |-> cancelled, runs |-> runs, procs |-> procs,
    events |-> events, tick |-> 0, fresh |-> 0,
    writes |-> 0, faultAt |-> 0, threw |-> FALSE ]

\* A callback during which the n-th storage write of the orchestrator fails.
CurFault(n) == [Cur EXCEPT !.faultAt = n]

Commit(s) ==
  /\ steps < MaxSteps
  /\ steps' = steps + 1
  /\ db' = s.db
  /\ activeProcesses' = s.ap
  /\ activeRalphLoops' = s.arl
  /\ cancelled' = s.cancelled
  /\ runs' = s.runs
  /\ procs' = s.procs
  /\ events' = s.events
  /\ tick' = s.tick
  /\ fresh' = s.fresh
  /\ UNCHANGED <<analysis, detect>>

\* ------------------------------------------------------------ pure helpers

MinOf(S) == CHOOSE x \in S : \A y \in S : x <= y
MaxOf(S) == CHOOSE x \in S : \A y \in S : x >= y

\* String.prototype.toLowerCase on one lexeme.
LowerWord(w) ==
  CASE w = "DONE" -> "done"
    [] w = "Done" -> "done"
    [] w = "TASK_COMPLETE" -> "task_complete"
    [] w = "<PROMISE>" -> "<promise>"
    [] w = "</PROMISE>" -> "</promise>"
    [] OTHER -> w

toLowerCase(s) == [i \in 1..Len(s) |-> LowerWord(s[i])]

\* String.prototype.trim: strips leading and trailing white space.
trim(s) ==
  LET keep == {i \in 1..Len(s) : s[i] \notin White}
  IN IF keep = {} THEN <<>> ELSE SubSeq(s, MinOf(keep), MaxOf(keep))

\* A match that takes the last tag of the output.
promiseMatchLastTag(output) ==
  LET closers(i) == {j \in (i + 2)..Len(output) : output[j] \in CloseMarkers}
      starts == {i \in 1..Len(output) : output[i] \in OpenMarkers /\ closers(i) # {}}
  IN IF starts = {} THEN <<>>
     ELSE LET i == MaxOf(starts)
              j == MinOf(closers(i))
          IN << SubSeq(output, i + 1, j - 1) >>

\* output.match(/<promise>(.+?)<\/promise>/is): the leftmost opening marker
\* that is followed by at least one lexeme and then a closing marker; the
\* capture is lazy, so it ends at the first such closing marker.  The result is
\* <<>> when there is no match, <<capture>> otherwise.
promiseMatch(output) ==
  LET closers(i) == {j \in (i + 2)..Len(output) : output[j] \in CloseMarkers}
      starts == {i \in 1..Len(output) : output[i] \in OpenMarkers /\ closers(i) # {}}
  IN IF starts = {} THEN <<>>
     ELSE LET i == MinOf(starts)
              j == MinOf(closers(i))
          IN << SubSeq(output, i + 1, j - 1) >>

\* A detector that compares the interior with the token as written.
checkCompletionPromiseCaseSensitive(output, expected) ==
  LET match == promiseMatch(output)
  IN IF match = <<>> THEN FALSE
     ELSE trim(match[1]) = trim(expected)

checkCompletionPromise(output, expected) ==
  LET match == promiseMatch(output)
  IN IF match = <<>> THEN FALSE
     ELSE toLowerCase(trim(match[1])) = toLowerCase(trim(expected))

\* ------------------------------------------------- the promise detector
\* checkCompletionPromise as a function of its two arguments.

\* Pieces an agent output is made of: a word, well-formed tags, an empty tag
\* and an opening marker on its own.
OutputSegments ==
  { <<"done">>,
    <<"<promise>", "done", "</promise>">>,
    <<"<promise>", "task_complete", "</promise>">>,
    <<"<promise>", "</promise>">>, <<"<promise>">> }

RECURSIVE Outputs(_)
Outputs(n) ==
  IF n = 0 THEN {<<>>}
  ELSE Outputs(n - 1) \cup {o \o g : o \in Outputs(n - 1), g \in OutputSegments}

\* Values of completionPromise: any non-empty text a PATCH stored, or the
\* default; white space around the token and a blank token are not rejected
\* anywhere.
ExpectedTokens ==
  { <<"done">>, <<" ", "done", "\n">>, <<" ">> }

Words == {"done", "DONE", "task_complete", "TASK_COMPLETE"}
Lexemes == OpenMarkers \cup CloseMarkers \cup White \cup Words

\* The same lexeme in another case.
CaseVariants(w) == {v \in Lexemes : LowerWord(v) = LowerWord(w)} \ {w}

DetectIdle ==
  [ pc |-> "idle", output |-> <<>>, expected |-> <<>>, result |-> FALSE,
    edits |-> 0 ]

\* One call of the function.
detectCall(output, expected, edits) ==
  [ pc |-> "returned", output |-> output, expected |-> expected,
    result |-> checkCompletionPromise(output, expected), edits |-> edits ]

\* ---------------------------------------------------------------- storage

getTaskById(d, id) == d[id]

\* updateTask(id, input): a partial update; nothing is written when the task
\* does not exist.  `input` is a record holding the fields that are defined.
updateTask(d, id, input) ==
  IF ~d[id].exists THEN d
  ELSE [d EXCEPT ![id] =
          [k \in DOMAIN d[id] |-> IF k \in DOMAIN input THEN input[k] ELSE d[id][k]]]

deleteTask(d, id) == [d EXCEPT ![id] = NoTask]

\* updateTask(id, input) as the orchestrator calls it.  A write that fails has
\* changed the row (getDb().run) and throws from saveDatabase (writeFileSync);
\* nothing is written, and nothing can fail, when the task does not exist.
write(s, id, input) ==
  IF ~s.db[id].exists THEN s
  ELSE [s EXCEPT !.db = updateTask(@, id, input),
                 !.writes = @ + 1,
                 !.threw = (s.faultAt # 0 /\ s.writes + 1 = s.faultAt)]

\* broadcast(type, payload); `run` is the run that emits it (0: the router).
broadcast(s, type, run, payload) ==
  [s EXCEPT !.events = Append(@, [type |-> type, run |-> run, payload |-> payload])]

\* ------------------------------------------------------- process handling

\* ChildProcess.kill('SIGTERM'): a signal to a process that still runs.
kill(s, pid) ==
  IF s.procs[pid].state = "running" THEN [s EXCEPT !.procs[pid].state = "killed"] ELSE s

cancelClaudeTask(s, taskId) ==
  IF s.ap[taskId] # 0
  THEN [kill(s, s.ap[taskId]) EXCEPT !.ap[taskId] = 0]
  ELSE s

\* History only: remembers, in every loop run of the task that has not ended,
\* that cancelRalphLoop was called while it ran.  The program never reads it.
noteCancelCall(s, taskId) ==
  [s EXCEPT !.runs =
     [r \in 1..Len(s.runs) |->
        IF s.runs[r].task = taskId /\ s.runs[r].kind = "loop" /\ s.runs[r].pc = "await"
        THEN [s.runs[r] EXCEPT !.cancelCalled = TRUE]
        ELSE s.runs[r]]]

\* The value cancelClaudeTask returns: whether an entry existed.
cancelClaudeTaskResult(s, taskId) == s.ap[taskId] # 0

\* The value cancelRalphLoop returns: whether a token existed.
cancelRalphLoopResult(s, taskId) == s.arl[taskId] # 0

\* A cancel that reports to the observers even when it finds no token.
cancelRalphLoopAlwaysReports(s, taskId) ==
  LET h == noteCancelCall(s, taskId)
  IN IF h.arl[taskId] # 0
     THEN cancelClaudeTask([h EXCEPT !.cancelled[h.arl[taskId]] = TRUE], taskId)
     ELSE broadcast(h, "ralph:complete", 0, [iteration |-> 0, reason |-> "cancelled"])

\* A cancel that raises the flag of every registered loop.
cancelRalphLoopEveryTask(s, taskId) ==
  LET h == noteCancelCall(s, taskId)
      tokens == {h.arl[t] : t \in DOMAIN h.arl} \ {0}
  IN IF h.arl[taskId] # 0
     THEN cancelClaudeTask(
            [h EXCEPT !.cancelled = [k \in DOMAIN @ |-> @[k] \/ k \in tokens]],
            taskId)
     ELSE h

cancelRalphLoop(s, taskId) ==
  LET h == noteCancelCall(s, taskId)
  IN IF h.arl[taskId] # 0
     THEN cancelClaudeTask([h EXCEPT !.cancelled[h.arl[taskId]] = TRUE], taskId)
     ELSE h

isTaskRunning(s, taskId) == s.ap[taskId] # 0

isRalphLoopRunning(s, taskId) == s.arl[taskId] # 0

\* spawn('claude', ...) followed by activeProcesses.set(task.id, claudeProcess).
\* `token` is the completion token written into the prompt; `ok` is FALSE when
\* the executable cannot be started, which Node reports through the error
\* callback on the next tick, before any other callback runs.
spawnClaude(s, taskId, run, token, ok) ==
  LET pid == Len(s.procs) + 1
      proc == [ task |-> taskId, run |-> run, state |-> "running",
                fullOutput |-> <<>>, exitCode |-> "none", settled |-> FALSE,
                promptToken |-> token, spawnFailed |-> ~ok ]
  IN [s EXCEPT !.procs = Append(@, proc),
               !.ap[taskId] = pid,
               !.runs[run].proc = pid,
               !.tick = IF ok THEN 0 ELSE pid,
               !.fresh = IF ok THEN pid ELSE 0]

\* -------------------------------------------------------- single-shot run

\* A run: the local variables of one startClaudeTask or runRalphLoop call.  Of
\* the task snapshot it was called with, only the status is read later.
NewRun(kind, taskId, task) ==
  [ kind |-> kind, task |-> taskId, pc |-> "await", proc |-> 0, taskStatus |-> task.status,
    currentIteration |-> 0, maxIterations |-> 0, completionPromise |-> <<>>,
    allOutput |-> <<>>, finalReason |-> "max_reached", cancelCalled |-> FALSE ]

\* startClaudeTask up to its await; `valid` is validateProjectDirectory's verdict.
startClaudeTask(s, taskId, task, valid, ok) ==
  LET run == Len(s.runs) + 1
      s1 == cancelClaudeTask(s, taskId)
      s2 == [s1 EXCEPT !.runs = Append(@, NewRun("single", taskId, task)),
                       !.cancelled = Append(@, FALSE)]
  IN IF ~valid
     THEN s1   \* returns before anything is spawned: no run to follow
     ELSE spawnClaude(s2, taskId, run, <<>>, ok)

\* A catch block that stores the error message in place of the output.
catchStartClaudeTaskDropsOutput(s, pid, errorMessage) ==
  LET p == s.procs[pid]
      fullOutput == <<"--- Error ---">> \o errorMessage
      s1 == write([s EXCEPT !.procs[pid].fullOutput = fullOutput],
                  p.task, [claude_output |-> fullOutput])
  IN [s1 EXCEPT !.runs[p.run].pc = IF s1.threw THEN "rejected" ELSE "done"]

\* The catch block of startClaudeTask, entered when the awaited promise rejects.
catchStartClaudeTask(s, pid, errorMessage) ==
  LET p == s.procs[pid]
      fullOutput == p.fullOutput \o <<"--- Error ---">> \o errorMessage
      s1 == write([s EXCEPT !.procs[pid].fullOutput = fullOutput],
                  p.task, [claude_output |-> fullOutput])
  IN [s1 EXCEPT !.runs[p.run].pc = IF s1.threw THEN "rejected" ELSE "done"]

\* A close callback that reports the exit but not the completion.
completeSingleUnreported(s, pid) ==
  LET p == s.procs[pid]
  IN [s EXCEPT !.db = updateTask(@, p.task,
                        [status |-> "done", claude_output |-> p.fullOutput])]

\* A close callback that announces the completion and stores only the output.
completeSingleStatusLater(s, pid) ==
  LET p == s.procs[pid]
      s2 == write(s, p.task, [claude_output |-> p.fullOutput])
      s3 == broadcast(s2, "claude:complete", p.run, [result |-> p.fullOutput])
  IN IF getTaskById(s3.db, p.task).exists
     THEN broadcast(s3, "task:updated", p.run, getTaskById(s3.db, p.task))
     ELSE s3

\* The code === 0 branch of the close callback of a startClaudeTask process.
completeSingle(s, pid) ==
  LET p == s.procs[pid]
      s2 == write(s, p.task, [status |-> "done", claude_output |-> p.fullOutput])
      s3 == broadcast(s2, "claude:complete", p.run, [result |-> p.fullOutput])
  IN IF s2.threw THEN s2
     ELSE IF getTaskById(s3.db, p.task).exists
          THEN broadcast(s3, "task:updated", p.run, getTaskById(s3.db, p.task))
          ELSE s3

\* An exception that leaves a close callback is not caught by anyone: the
\* promise startClaudeTask awaits is never settled.
uncaught(s, run) == [s EXCEPT !.runs[run].pc = "crashed"]

\* The close callback of a startClaudeTask process.
closeSingle(s, pid, code) ==
  LET p == s.procs[pid]
      s1 == [s EXCEPT !.ap[p.task] = 0,
                      !.procs[pid].state = "closed",
                      !.procs[pid].exitCode = code,
                      !.procs[pid].settled = TRUE]
  IN IF code = "0"
     THEN LET s4 == completeSingle(s1, pid)
          IN IF s4.threw THEN uncaught(s4, p.run)
             ELSE IF p.settled THEN s4 ELSE [s4 EXCEPT !.runs[p.run].pc = "done"]
     ELSE LET s2 == write(s1, p.task,
                        [claude_output |-> p.fullOutput \o <<"[Process exited with code", code, "]">>])
          IN IF s2.threw THEN uncaught(s2, p.run)
             ELSE IF p.settled THEN s2
             ELSE catchStartClaudeTask(s2, pid, <<"Claude exited with code", code>>)

\* The error callback of a startClaudeTask process.
errorSingle(s, pid) ==
  LET p == s.procs[pid]
      s1 == [s EXCEPT !.ap[p.task] = 0,
                      !.procs[pid].state = "errored",
                      !.procs[pid].settled = TRUE]
  IN IF p.settled THEN s1 ELSE catchStartClaudeTask(s1, pid, <<"spawn claude ENOENT">>)

\* ------------------------------------------------------------- Ralph loop

DefaultMaxIterations == 10

\* task.ralph_max_iterations || 10
maxIterationsOf(task) ==
  IF task.ralph_max_iterations = 0 THEN DefaultMaxIterations ELSE task.ralph_max_iterations

\* task.ralph_completion_promise || 'TASK_COMPLETE'
completionPromiseOf(task) ==
  IF task.ralph_completion_promise = <<>> THEN TASK_COMPLETE ELSE task.ralph_completion_promise

\* A switch that leaves a fulfilled loop marked as iterating.
ralphStatusOfNoCompleted(finalReason) ==
  CASE finalReason = "promise_fulfilled" -> "iterating"
    [] finalReason = "max_reached" -> "max_reached"
    [] finalReason = "cancelled" -> "cancelled"
    [] finalReason = "error" -> "cancelled"

\* The switch on finalReason: the ralph_status written at loop exit.
ralphStatusOf(finalReason) ==
  CASE finalReason = "promise_fulfilled" -> "completed"
    [] finalReason = "max_reached" -> "max_reached"
    [] finalReason = "cancelled" -> "cancelled"
    [] finalReason = "error" -> "cancelled"

\* A switch that marks the task done whatever the reason.
taskStatusOfAlwaysDone(finalReason, taskStatus) == "done"

\* The switch on finalReason: the status written at loop exit (taskStatus is
\* task.status of the snapshot runRalphLoop was called with).
taskStatusOf(finalReason, taskStatus) ==
  IF finalReason = "promise_fulfilled" THEN "done" ELSE taskStatus

\* A while condition that is off by one.
loopConditionInclusive(currentIteration, maxIterations) == currentIteration <= maxIterations

\* The while condition of runRalphLoop.
loopCondition(currentIteration, maxIterations) == currentIteration < maxIterations

\* loopState?.cancelled, with loopState = activeRalphLoops.get(task.id).
loopStateCancelled(s, taskId) ==
  s.arl[taskId] # 0 /\ s.cancelled[s.arl[taskId]]

\* A loop end that always emits the single-shot completion event as well.
announceCompletionBothEvents(s, run, finalReason) ==
  LET r == s.runs[run]
      s3 == broadcast(s, "ralph:complete", run,
                      [iteration |-> r.currentIteration, reason |-> finalReason])
      s4 == broadcast(s3, "claude:complete", run, [result |-> r.allOutput])
  IN broadcast(s4, "task:updated", run, getTaskById(s4.db, r.task))

\* The broadcasts that end runRalphLoop.
announceCompletion(s, run, finalReason) ==
  LET r == s.runs[run]
      s3 == broadcast(s, "ralph:complete", run,
                      [iteration |-> r.currentIteration, reason |-> finalReason])
      s4 == IF finalReason = "promise_fulfilled"
            THEN broadcast(s3, "claude:complete", run, [result |-> r.allOutput])
            ELSE s3
  IN broadcast(s4, "task:updated", run, getTaskById(s4.db, r.task))

\* runRalphLoop from "Clean up" to its end.  The final update is outside the
\* try block: when it throws, the promise runRalphLoop returned is rejected.
exitLoop(s, run, finalReason) ==
  LET r == s.runs[run]
      s1 == [s EXCEPT !.arl[r.task] = 0,
                      !.runs[run].finalReason = finalReason,
                      !.runs[run].pc = "done"]
      s2 == write(s1, r.task,
                 [ status |-> taskStatusOf(finalReason, r.taskStatus),
                   claude_output |-> r.allOutput,
                   ralph_status |-> ralphStatusOf(finalReason),
                   ralph_current_iteration |-> r.currentIteration ])
  IN IF s2.threw
     THEN [s2 EXCEPT !.runs[run].pc = "rejected"]
     ELSE announceCompletion(s2, run, finalReason)

\* The catch block of runRalphLoop.
catchRalphLoop(s, run, errorMessage) ==
  exitLoop([s EXCEPT !.threw = FALSE,
                     !.runs[run].allOutput = @ \o <<"--- Error ---">> \o errorMessage],
           run, "error")

\* runRalphLoop from the while condition to the next await (the spawn of the
\* next iteration's process) or to the end of the function.
whileLoop(s, run, ok) ==
  LET r == s.runs[run]
  IN IF loopCondition(r.currentIteration, r.maxIterations)
     THEN IF loopStateCancelled(s, r.task)
          THEN exitLoop(s, run, "cancelled")
          ELSE LET n == r.currentIteration + 1
                   s1 == write([s EXCEPT !.runs[run].currentIteration = n],
                               r.task, [ralph_current_iteration |-> n])
                   s2 == broadcast(s1, "ralph:iteration_start", run,
                                   [iteration |-> n, maxIterations |-> r.maxIterations])
                   s3 == broadcast(s2, "task:updated", run, getTaskById(s2.db, r.task))
                   currentTask == getTaskById(s3.db, r.task)
               IN IF s1.threw
                  THEN catchRalphLoop(s1, run, <<"storage fault">>)
                  ELSE IF ~currentTask.exists
                  THEN exitLoop(s3, run, "error")
                  ELSE spawnClaude(s3, r.task, run, currentTask.ralph_completion_promise, ok)
     ELSE exitLoop(s, run, r.finalReason)

\* runRalphLoop up to its first await.
runRalphLoop(s, taskId, task, ok) ==
  LET run == Len(s.runs) + 1
      r == [NewRun("loop", taskId, task) EXCEPT
              !.maxIterations = maxIterationsOf(task),
              !.completionPromise = completionPromiseOf(task)]
      s1 == [s EXCEPT !.arl[taskId] = run,
                      !.cancelled = Append(@, FALSE),
                      !.runs = Append(@, r)]
      s2 == write(s1, taskId,
                 [ralph_status |-> "iterating", ralph_current_iteration |-> 0])
      s3 == broadcast(s2, "task:updated", run, getTaskById(s2.db, taskId))
  IN IF s2.threw
     THEN [s2 EXCEPT !.runs[run].pc = "rejected"]   \* thrown before the try block
     ELSE whileLoop(s3, run, ok)

\* A loop that gives up when an iteration's process fails.
afterIterationStopOnFailure(s, run, output, exitCode, ok) ==
  LET r == s.runs[run]
      allOutput == r.allOutput
                   \o <<"--- Iteration", ToString(r.currentIteration), "---">> \o output
      promiseFound == checkCompletionPromise(output, r.completionPromise)
      s1 == [s EXCEPT !.runs[run].allOutput = allOutput]
      s2 == broadcast(s1, "ralph:iteration_complete", run,
                      [iteration |-> r.currentIteration, promiseFound |-> promiseFound])
  IN IF promiseFound
     THEN exitLoop(s2, run, "promise_fulfilled")
     ELSE IF exitCode # "0" THEN exitLoop(s2, run, "error") ELSE whileLoop(s2, run, ok)

\* A loop that looks for the promise in the transcript of all iterations.
afterIterationDetectsTranscript(s, run, output, exitCode, ok) ==
  LET r == s.runs[run]
      allOutput == r.allOutput
                   \o <<"--- Iteration", ToString(r.currentIteration), "---">> \o output
      promiseFound == checkCompletionPromise(allOutput, r.completionPromise)
      s1 == [s EXCEPT !.runs[run].allOutput = allOutput]
      s2 == broadcast(s1, "ralph:iteration_complete", run,
                      [iteration |-> r.currentIteration, promiseFound |-> promiseFound])
  IN IF promiseFound
     THEN exitLoop(s2, run, "promise_fulfilled")
     ELSE whileLoop(s2, run, ok)

\* runRalphLoop from the resolution of runSingleIteration to the next await.
afterIteration(s, run, output, exitCode, ok) ==
  LET r == s.runs[run]
      allOutput == r.allOutput
                   \o <<"--- Iteration", ToString(r.currentIteration), "---">> \o output
      promiseFound == checkCompletionPromise(output, r.completionPromise)
      s1 == [s EXCEPT !.runs[run].allOutput = allOutput]
      s2 == broadcast(s1, "ralph:iteration_complete", run,
                      [iteration |-> r.currentIteration, promiseFound |-> promiseFound])
  IN IF promiseFound
     THEN exitLoop(s2, run, "promise_fulfilled")
     ELSE whileLoop(s2, run, ok)

\* The close callback of a runSingleIteration process.
closeIteration(s, pid, code, ok) ==
  LET p == s.procs[pid]
      s1 == [s EXCEPT !.ap[p.task] = 0,
                      !.procs[pid].state = "closed",
                      !.procs[pid].exitCode = code,
                      !.procs[pid].settled = TRUE]
  IN IF p.settled THEN s1 ELSE afterIteration(s1, p.run, p.fullOutput, code, ok)

\* An error callback that ends the loop with reason error.
errorIterationAborts(s, pid, ok) ==
  LET p == s.procs[pid]
      s1 == [s EXCEPT !.ap[p.task] = 0,
                      !.procs[pid].state = "errored",
                      !.procs[pid].exitCode = "1",
                      !.procs[pid].settled = TRUE]
  IN IF p.settled THEN s1 ELSE exitLoop(s1, p.run, "error")

\* The error callback of a runSingleIteration process.
errorIteration(s, pid, ok) ==
  LET p == s.procs[pid]
      fullOutput == p.fullOutput \o <<"[error]", "spawn claude ENOENT">>
      s1 == [s EXCEPT !.ap[p.task] = 0,
                      !.procs[pid].state = "errored",
                      !.procs[pid].fullOutput = fullOutput,
                      !.procs[pid].exitCode = "1",
                      !.procs[pid].settled = TRUE]
  IN IF p.settled THEN s1 ELSE afterIteration(s1, p.run, fullOutput, "1", ok)

\* ------------------------------------------------------------ task router

\* PATCH /api/tasks/:id with body `input` (a record of the fields it sets).
patchTask(s, id, input, valid, ok) ==
  LET previousTask == getTaskById(s.db, id)
      s1 == [s EXCEPT !.db = updateTask(@, id, input)]
      task == getTaskById(s1.db, id)
      s2 == s1   \* the router's own task:updated broadcast is not recorded in events
      status == IF "status" \in DOMAIN input THEN input.status ELSE "undefined"
      s3 == IF status = "in_progress" /\ previousTask.status # "in_progress"
            THEN IF task.ralph_enabled
                 THEN runRalphLoop(
                        [s2 EXCEPT !.db = updateTask(@, id,
                            [ralph_current_iteration |-> 0, ralph_status |-> "null"])],
                        id, task, ok)
                 ELSE startClaudeTask(s2, id, task, valid, ok)
            ELSE s2
  IN IF previousTask.status = "in_progress" /\ status # "undefined" /\ status # "in_progress"
     THEN cancelRalphLoop(cancelClaudeTask(s3, id), id)
     ELSE s3

\* DELETE /api/tasks/:id
deleteTaskRoute(s, id) ==
  LET s1 == cancelRalphLoop(cancelClaudeTask(s, id), id)
  IN [s1 EXCEPT !.db = deleteTask(@, id)]

\* ---------------------------------------------------------- data callbacks

\* text.includes('Error') || text.includes('error')
includesError(text) == \E i \in 1..Len(text) : text[i] \in {"Error", "error"}

\* The stdout 'data' callback (the same in startClaudeTask and runSingleIteration).
onStdout(s, pid, text) ==
  [s EXCEPT !.procs[pid].fullOutput = @ \o text]

\* The stderr 'data' callback: only texts with an error marker are kept.
onStderr(s, pid, text) ==
  IF includesError(text)
  THEN [s EXCEPT !.procs[pid].fullOutput = @ \o <<"[stderr]">> \o text]
  ELSE s

\* ------------------------------------------------------- codebase analysis
\* analyzeCodebase of services/analysis.ts (src/unnamed/part_001).  A call
\* keeps all of its state in its own closure, so one call is modelled.

\* The requested tasks: the analysis router rejects an empty list and a task
\* without a title.
TaskInputs == UNION {[1..n -> [title : Titles]] : n \in 1..MaxTasks}

AnalysisResultOf(title, status, confidence, evidence) ==
  [taskTitle |-> title, status |-> status, confidence |-> confidence,
   evidence |-> evidence]

\* tasks.map((task) => ({ taskTitle: task.title, status: 'unknown', ... }))
unknownResults(tasks, evidence) ==
  [i \in 1..Len(tasks) |->
     AnalysisResultOf(tasks[i].title, "unknown", "low", evidence)]

\* Elements the agent can put into the "results" array: result objects (for
\* requested titles and for one title nobody requested) and JSON null.
JsonNull == [isNull |-> TRUE]
found(title) == AnalysisResultOf(title, "complete", "high", "found")
begun(title) == AnalysisResultOf(title, "partial", "medium", "begun")
ResultLists ==
  { <<>>, <<found("A")>>, <<found("B"), found("A")>>,
    <<found("A"), begun("A")>>, <<found("Z")>>,
    <<JsonNull>>, <<found("A"), JsonNull>> }

\* What the agent prints, one piece per stdout chunk: prose without braces,
\* prose with braces, and complete JSON objects (given by their value): with
\* an array under "results", with a non-array under "results", or without
\* that key.
NotJson == [isJson |-> FALSE]
Piece(open, close, mentions, value) ==
  [open |-> open, close |-> close, mentions |-> mentions, value |-> value]
Prose == Piece(FALSE, FALSE, FALSE, NotJson)
BraceProse == Piece(TRUE, TRUE, FALSE, NotJson)
Document(value) == Piece(TRUE, TRUE, value.hasResults, value)
JsonObjects ==
  {[isJson |-> TRUE, hasResults |-> TRUE, isArray |-> TRUE, results |-> l] :
     l \in ResultLists}
  \cup {[isJson |-> TRUE, hasResults |-> TRUE, isArray |-> FALSE, results |-> <<>>],
        [isJson |-> TRUE, hasResults |-> FALSE, isArray |-> FALSE, results |-> <<>>]}
Pieces == {Prose, BraceProse} \cup {Document(v) : v \in JsonObjects}

\* output.match(/\{[\s\S]*"results"[\s\S]*\}/): from the first "{" that has
\* the text "results" and a "}" after it, up to the last "}".
jsonMatch(output) ==
  LET hits == {k \in 1..Len(output) :
                 /\ output[k].mentions
                 /\ \E i \in 1..k : output[i].open
                 /\ \E j \in k..Len(output) : output[j].close}
  IN IF hits = {} THEN [matched |-> FALSE, from |-> 0, to |-> 0]
     ELSE [matched |-> TRUE,
           from |-> MinOf({i \in 1..Len(output) : output[i].open}),
           to |-> MaxOf({j \in 1..Len(output) : output[j].close})]

\* JSON.parse of the matched text: it is JSON only when it is exactly one
\* JSON object; anything else throws a SyntaxError.
JSONparse(output, m) ==
  IF m.from = m.to THEN output[m.from].value ELSE NotJson

NoResults == [ok |-> FALSE, results |-> <<>>]

\* parseAnalysisOutput: the results array, or null (ok = FALSE).
parseAnalysisOutput(output) ==
  LET m == jsonMatch(output)
      parsed == JSONparse(output, m)
  IN IF ~m.matched THEN NoResults
     ELSE IF parsed = NotJson THEN NoResults
     ELSE IF ~parsed.isArray THEN NoResults
     ELSE [ok |-> TRUE, results |-> parsed.results]

\* new Map(results.map((r) => [r.taskTitle, r])).get(title): the last element
\* with that title, if any.
resultsMapHas(results, title) ==
  \E i \in 1..Len(results) : results[i].taskTitle = title
resultsMapGet(results, title) ==
  results[MaxOf({i \in 1..Len(results) : results[i].taskTitle = title})]

\* "Ensure all tasks have a result (fill in missing ones)".
completeResults(tasks, results) ==
  [i \in 1..Len(tasks) |->
     IF resultsMapHas(results, tasks[i].title)
     THEN resultsMapGet(results, tasks[i].title)
     ELSE AnalysisResultOf(tasks[i].title, "unknown", "low", "Not analyzed")]

AnalysisIdle ==
  [ pc |-> "idle", tasks |-> <<>>, fullOutput |-> <<>>, timedOut |-> FALSE,
    timer |-> FALSE, proc |-> "none", settled |-> FALSE, value |-> <<>>,
    sent |-> <<>> ]

\* broadcast?.(type, payload)
analysisBroadcast(a, type, payload) ==
  [a EXCEPT !.sent = Append(@, [type |-> type, payload |-> payload])]

\* resolve(value): only the first call settles the promise.
resolve(a, value) ==
  IF a.settled THEN a ELSE [a EXCEPT !.settled = TRUE, !.value = value]

\* One of the fallback endings: broadcast analysis:complete, then resolve.
resolveUnknown(a, evidence, flag) ==
  LET unknown == unknownResults(a.tasks, evidence)
  IN resolve(analysisBroadcast(a, "analysis:complete",
                               [results |-> unknown, flag |-> flag]),
             unknown)

\* analyzeCodebase up to the return of the promise.
analyzeCodebase(a, tasks, ok) ==
  LET a1 == analysisBroadcast(a, "analysis:start", [taskCount |-> Len(tasks)])
  IN [a1 EXCEPT !.pc = "running", !.tasks = tasks, !.timer = TRUE,
                !.proc = IF ok THEN "running" ELSE "failed"]

\* The timeout callback.
onAnalysisTimeout(a) ==
  [a EXCEPT !.timedOut = TRUE, !.timer = FALSE,
            !.proc = IF @ = "running" THEN "killed" ELSE @]

\* The stdout 'data' callback.
onAnalysisStdout(a, piece) ==
  analysisBroadcast([a EXCEPT !.fullOutput = Append(@, piece)],
                    "analysis:progress", [message |-> piece])

\* The 'close' callback looking at the exit code before the timeout flag.
onAnalysisCloseCodeFirst(a, code) ==
  LET a1 == [a EXCEPT !.timer = FALSE, !.proc = "closed"]
      parsed == parseAnalysisOutput(a1.fullOutput)
      complete == completeResults(a1.tasks, parsed.results)
  IN IF code # "0" THEN resolveUnknown(a1, "Analysis failed", "error")
     ELSE IF ~parsed.ok
     THEN resolveUnknown(a1, "Could not parse analysis results", "parseError")
     ELSE IF \E i \in 1..Len(parsed.results) : parsed.results[i] = JsonNull
     THEN [a1 EXCEPT !.pc = "crashed"]
     ELSE resolve(analysisBroadcast(a1, "analysis:complete",
                                    [results |-> complete, flag |-> "none"]),
                  complete)

\* The 'close' callback.  An element null makes r.taskTitle throw a TypeError
\* inside the callback: nothing catches it and the promise stays pending.
onAnalysisClose(a, code) ==
  LET a1 == [a EXCEPT !.timer = FALSE, !.proc = "closed"]
      parsed == parseAnalysisOutput(a1.fullOutput)
      complete == completeResults(a1.tasks, parsed.results)
  IN IF a1.timedOut THEN resolveUnknown(a1, "Analysis timed out", "timedOut")
     ELSE IF code # "0" THEN resolveUnknown(a1, "Analysis failed", "error")
     ELSE IF ~parsed.ok
     THEN resolveUnknown(a1, "Could not parse analysis results", "parseError")
     ELSE IF \E i \in 1..Len(parsed.results) : parsed.results[i] = JsonNull
     THEN [a1 EXCEPT !.pc = "crashed"]
     ELSE resolve(analysisBroadcast(a1, "analysis:complete",
                                    [results |-> complete, flag |-> "none"]),
                  complete)

\* The 'error' callback.
onAnalysisError(a) ==
  resolveUnknown([a EXCEPT !.timer = FALSE, !.proc = "errored"],
                 "Process error: spawn claude ENOENT", "error")

\* ------------------------------------------------------------------ actions

Pids == 1..Len(procs)

Init ==
  /\ db = [t \in TaskIds |-> [NoTask EXCEPT !.exists = TRUE,
                                            !.ralph_completion_promise = DONE]]
  /\ activeProcesses = [t \in TaskIds |-> 0]
  /\ activeRalphLoops = [t \in TaskIds |-> 0]
  /\ cancelled = <<>>
  /\ runs = <<>>
  /\ procs = <<>>
  /\ events = <<>>
  /\ tick = 0
  /\ fresh = 0
  /\ steps = 0
  /\ analysis = AnalysisIdle
  /\ detect = DetectIdle

\* PATCH {status: 'in_progress', ralph_enabled, ralph_max_iterations} on a task
\* that is not in progress: starts a run.
PatchStart(id) ==
  /\ tick = 0
  /\ db[id].exists
  /\ db[id].status # "in_progress"
  /\ \E e \in BOOLEAN, m \in 1..MaxIter, valid \in BOOLEAN, ok \in BOOLEAN :
       /\ e => valid
       /\ ~e => m = 1
       /\ Commit(patchTask(Cur, id,
                   [status |-> "in_progress", ralph_enabled |-> e,
                    ralph_max_iterations |-> m], valid, ok))

\* PATCH {status: 'todo'} on a task that is in progress: cancels its run.
PatchStop(id) ==
  /\ tick = 0
  /\ db[id].exists
  /\ db[id].status = "in_progress"
  /\ Commit(patchTask(Cur, id, [status |-> "todo"], TRUE, TRUE))

\* DELETE
DeleteTask(id) ==
  /\ tick = 0
  /\ db[id].exists
  /\ Commit(deleteTaskRoute(Cur, id))

\* The stdout and stderr callbacks only append to fullOutput, which nothing
\* reads before the close or error callback of the same process: they commute
\* with every other callback, so a process's output is delivered right after
\* its spawn (whether it is ended by a signal or not).
StdoutData(pid) ==
  /\ tick = 0
  /\ fresh = pid
  /\ procs[pid].state = "running"
  /\ \E text \in StdoutChunks : Commit([onStdout(Cur, pid, text) EXCEPT !.fresh = pid])

StderrData(pid) ==
  /\ tick = 0
  /\ fresh = pid
  /\ procs[pid].state = "running"
  /\ \E text \in StderrChunks : Commit([onStderr(Cur, pid, text) EXCEPT !.fresh = pid])

\* The exit codes a close callback can carry, by the state of the process: a
\* process that was sent SIGTERM reports null, or 0 when it had already ended
\* (or ends in its signal handler); a failed spawn reports a non-zero code.
closeCodes(state) ==
  CASE state = "running" -> {"0", "1"}
    [] state = "killed" -> {"null", "0"}
    [] state = "errored" -> {"1"}
    [] OTHER -> {}

\* The 'close' callback of process pid.
ProcClose(pid) ==
  /\ tick = 0
  /\ \E code \in closeCodes(procs[pid].state), ok \in BOOLEAN :
       /\ runs[procs[pid].run].kind = "single" => ok
       /\ Commit(IF runs[procs[pid].run].kind = "single"
                 THEN closeSingle(Cur, pid, code)
                 ELSE closeIteration(Cur, pid, code, ok))

\* The 'error' callback of process pid, whose spawn failed.
ProcError(pid) ==
  /\ tick = pid
  /\ \E ok \in BOOLEAN :
       /\ runs[procs[pid].run].kind = "single" => ok
       /\ Commit(IF runs[procs[pid].run].kind = "single"
                 THEN errorSingle(Cur, pid)
                 ELSE errorIteration(Cur, pid, ok))

Next ==
  \/ \E id \in TaskIds : PatchStart(id)
  \/ \E id \in TaskIds : PatchStop(id)
  \/ \E id \in TaskIds : DeleteTask(id)
  \/ \E pid \in Pids : StdoutData(pid)
  \/ \E pid \in Pids : StderrData(pid)
  \/ \E pid \in Pids : ProcClose(pid)
  \/ \E pid \in Pids : ProcError(pid)

Spec == Init /\ [][Next]_vars

\* ------------------------------------- token edits and outputs with other tags
\* The orchestrator with PATCH requests that edit the stored completion token
\* and with agents that print a tag holding another token.

\* Tokens a PATCH may store: the empty text and another token.
PromiseEdits == {<<>>, TASK_COMPLETE}

\* PATCH {ralph_completion_promise: token}
PatchPromise(id) ==
  /\ tick = 0
  /\ db[id].exists
  /\ \E token \in PromiseEdits :
       /\ db[id].ralph_completion_promise # token
       /\ Commit(patchTask(Cur, id, [ralph_completion_promise |-> token], TRUE, TRUE))

\* Chunks with a tag around a token that is not the task's.
OtherChunks == { <<"<promise>", "other", "</promise>">> }

StdoutOther(pid) ==
  /\ tick = 0
  /\ fresh = pid
  /\ procs[pid].state = "running"
  /\ \E text \in OtherChunks : Commit([onStdout(Cur, pid, text) EXCEPT !.fresh = pid])

NextEdit ==
  \/ Next
  \/ \E id \in TaskIds : PatchPromise(id)
  \/ \E pid \in Pids : StdoutOther(pid)

SpecEdit == Init /\ [][NextEdit]_vars

\* --------------------------------------------------- two tasks side by side
\* The orchestrator with two task ids in storage.

TwoTaskIds == {"t1", "t2"}

InitTwo ==
  /\ db = [t \in TwoTaskIds |-> [NoTask EXCEPT !.exists = TRUE,
                                               !.ralph_completion_promise = DONE]]
  /\ activeProcesses = [t \in TwoTaskIds |-> 0]
  /\ activeRalphLoops = [t \in TwoTaskIds |-> 0]
  /\ cancelled = <<>>
  /\ runs = <<>>
  /\ procs = <<>>
  /\ events = <<>>
  /\ tick = 0
  /\ fresh = 0
  /\ steps = 0
  /\ analysis = AnalysisIdle
  /\ detect = DetectIdle

NextTwo ==
  \/ \E id \in TwoTaskIds : steps < MaxStepsTwo /\ PatchStart(id)
  \/ \E id \in TwoTaskIds : steps < MaxStepsTwo /\ PatchStop(id)
  \/ \E id \in TwoTaskIds : steps < MaxStepsTwo /\ DeleteTask(id)
  \/ \E pid \in Pids : steps < MaxStepsTwo /\ StdoutData(pid)
  \/ \E pid \in Pids : steps < MaxStepsTwo /\ StderrData(pid)
  \/ \E pid \in Pids : steps < MaxStepsTwo /\ ProcClose(pid)
  \/ \E pid \in Pids : steps < MaxStepsTwo /\ ProcError(pid)

SpecTwo == InitTwo /\ [][NextTwo]_vars

\* ------------------------------------------------- storage that can fail

\* Which storage write of a callback fails.
FaultPoints == {1, 2}

\* PATCH to in_progress during which a write of runRalphLoop fails.
PatchStartFault(id) ==
  /\ tick = 0
  /\ db[id].exists
  /\ db[id].status # "in_progress"
  /\ \E m \in 1..MaxIter, ok \in BOOLEAN, n \in FaultPoints :
       LET s == patchTask(CurFault(n), id,
                          [status |-> "in_progress", ralph_enabled |-> TRUE,
                           ralph_max_iterations |-> m], TRUE, ok)
       IN s.writes >= n /\ Commit(s)

\* The 'close' callback of process pid during which a storage write fails.
ProcCloseFault(pid) ==
  /\ tick = 0
  /\ \E code \in closeCodes(procs[pid].state), ok \in BOOLEAN, n \in FaultPoints :
       LET s == IF runs[procs[pid].run].kind = "single"
                THEN closeSingle(CurFault(n), pid, code)
                ELSE closeIteration(CurFault(n), pid, code, ok)
       IN /\ runs[procs[pid].run].kind = "single" => ok
          /\ s.writes >= n
          /\ Commit(s)

\* The 'error' callback of process pid during which a storage write fails.
ProcErrorFault(pid) ==
  /\ tick = pid
  /\ \E ok \in BOOLEAN, n \in FaultPoints :
       LET s == IF runs[procs[pid].run].kind = "single"
                THEN errorSingle(CurFault(n), pid)
                ELSE errorIteration(CurFault(n), pid, ok)
       IN /\ runs[procs[pid].run].kind = "single" => ok
          /\ s.writes >= n
          /\ Commit(s)

\* The program with a storage whose writes may fail.
NextFault ==
  \/ Next
  \/ \E id \in TaskIds : PatchStartFault(id)
  \/ \E pid \in Pids : ProcCloseFault(pid)
  \/ \E pid \in Pids : ProcErrorFault(pid)

SpecFault == Init /\ [][NextFault]_vars

\* ---------------------------------------------------- analysis as a system
\* The callbacks of one analyzeCodebase call.  The stderr callback only logs.

Orchestrator ==
  <<db, activeProcesses, activeRalphLoops, cancelled, runs, procs, events,
    tick, fresh, steps>>

AnalyzeStart(tasks, ok) ==
  /\ analysis.pc = "idle"
  /\ analysis' = analyzeCodebase(analysis, tasks, ok)
  /\ UNCHANGED <<Orchestrator, detect>>

AnalysisStdout(piece) ==
  /\ analysis.pc = "running"
  /\ analysis.proc \in {"running", "killed"}
  /\ Len(analysis.fullOutput) < MaxChunks
  /\ analysis' = onAnalysisStdout(analysis, piece)
  /\ UNCHANGED <<Orchestrator, detect>>

AnalysisTimeout ==
  /\ analysis.pc = "running"
  /\ analysis.timer
  /\ analysis.proc = "running"
  /\ analysis' = onAnalysisTimeout(analysis)
  /\ UNCHANGED <<Orchestrator, detect>>

\* A killed process closes with code null, or with its own exit code when it
\* ended just before the signal; after a failed spawn 'close' follows 'error'
\* with a negative code.
analysisCloseCodes ==
  IF analysis.proc = "killed" THEN {"null", "0", "1"}
  ELSE IF analysis.proc = "errored" THEN {"-2"}
  ELSE ExitCodes

AnalysisClose(code) ==
  /\ analysis.pc = "running"
  /\ analysis.proc \in {"running", "killed", "errored"}
  /\ analysis' = onAnalysisClose(analysis, code)
  /\ UNCHANGED <<Orchestrator, detect>>

AnalysisError ==
  /\ analysis.pc = "running"
  /\ analysis.proc = "failed"
  /\ analysis' = onAnalysisError(analysis)
  /\ UNCHANGED <<Orchestrator, detect>>

NextAnalysis ==
  \/ \E tasks \in TaskInputs, ok \in BOOLEAN : AnalyzeStart(tasks, ok)
  \/ \E piece \in Pieces : AnalysisStdout(piece)
  \/ AnalysisTimeout
  \/ \E code \in analysisCloseCodes : AnalysisClose(code)
  \/ AnalysisError

SpecAnalysis == Init /\ [][NextAnalysis]_vars

\* ------------------------------------------------- the detector as a system
\* A call of checkCompletionPromise, followed by calls on arguments that
\* differ from the previous ones in the case of one lexeme or in white space
\* next to the markers of the tag.

Others == <<Orchestrator, analysis>>

\* Where the tag found in the output starts and ends (0, 0: no tag).
tagSpan(output) ==
  LET closers(i) == {j \in (i + 2)..Len(output) : output[j] \in CloseMarkers}
      starts == {i \in 1..Len(output) : output[i] \in OpenMarkers /\ closers(i) # {}}
  IN IF starts = {} THEN [from |-> 0, to |-> 0]
     ELSE [from |-> MinOf(starts), to |-> MinOf(closers(MinOf(starts)))]

InsertAt(s, i, w) == SubSeq(s, 1, i - 1) \o <<w>> \o SubSeq(s, i, Len(s))

DetectCall(output, expected) ==
  /\ detect.pc = "idle"
  /\ detect' = detectCall(output, expected, 0)
  /\ UNCHANGED Others

ChangeOutputCase(i, v) ==
  /\ detect.pc = "returned"
  /\ detect.edits < MaxEdits
  /\ i \in 1..Len(detect.output)
  /\ v \in CaseVariants(detect.output[i])
  /\ detect' = detectCall([detect.output EXCEPT ![i] = v], detect.expected,
                          detect.edits + 1)
  /\ UNCHANGED Others

ChangeExpectedCase(i, v) ==
  /\ detect.pc = "returned"
  /\ detect.edits < MaxEdits
  /\ i \in 1..Len(detect.expected)
  /\ v \in CaseVariants(detect.expected[i])
  /\ detect' = detectCall(detect.output, [detect.expected EXCEPT ![i] = v],
                          detect.edits + 1)
  /\ UNCHANGED Others

\* White space right after the opening marker of the tag (leading) or right
\* before its closing marker (trailing).
PadInterior(w, leading) ==
  /\ detect.pc = "returned"
  /\ detect.edits < MaxEdits
  /\ tagSpan(detect.output).from # 0
  /\ detect' =
       detectCall(InsertAt(detect.output,
                           IF leading THEN tagSpan(detect.output).from + 1
                           ELSE tagSpan(detect.output).to, w),
                  detect.expected, detect.edits + 1)
  /\ UNCHANGED Others

NextDetector ==
  \/ \E output \in Outputs(MaxSegments), expected \in ExpectedTokens :
       DetectCall(output, expected)
  \/ \E i \in 1..(3 * MaxSegments + MaxEdits), v \in Lexemes : ChangeOutputCase(i, v)
  \/ \E i \in 1..3, v \in Lexemes : ChangeExpectedCase(i, v)
  \/ \E w \in White, leading \in BOOLEAN : PadInterior(w, leading)

SpecDetector == Init /\ [][NextDetector]_vars

\* ------------------------------------------------------------------ claims

LoopRuns == {r \in 1..Len(runs) : runs[r].kind = "loop"}
SingleRuns == {r \in 1..Len(runs) : runs[r].kind = "single"}

\* An agent process that runs: spawned, not failed to start, not sent SIGTERM
\* and not yet closed.
Live(pid) == procs[pid].state = "running" /\ ~procs[pid].spawnFailed

LiveProcs(taskId) == {pid \in Pids : procs[pid].task = taskId /\ Live(pid)}

\* A process handle from which no close or error callback has come yet and
\* which was not sent SIGTERM.
Pending(pid) == procs[pid].state = "running"

\* C1: for one task id there are never two live agent processes: a new run
\* ends the process of the prior run before it spawns its own.
C1_NoTwoLiveProcesses ==
  \A t \in TaskIds : Cardinality(LiveProcs(t)) <= 1

\* C2: activeProcesses has an entry for a task id exactly when a process of
\* that task is live, and the entry is that process.
C2_RegistryIsLiveProcess ==
  \A t \in TaskIds :
    /\ activeProcesses[t] # 0 <=> \E pid \in Pids : procs[pid].task = t /\ Pending(pid)
    /\ activeProcesses[t] # 0 => Pending(activeProcesses[t])

\* The step ends the iteration of loop run r that process pid carries out: the
\* promise runSingleIteration returned is resolved by the close or the error
\* callback of pid, and runRalphLoop goes on from its await.
IterationEnds(r, pid) ==
  /\ runs[r].pc = "await"
  /\ runs[r].proc = pid
  /\ ~procs[pid].settled
  /\ procs'[pid].settled

\* The step spawns one process, for run r.
Spawned(r) ==
  /\ Len(procs') = Len(procs) + 1
  /\ procs'[Len(procs')].run = r
  /\ runs'[r].proc = Len(procs')

\* The exit codes that runRalphLoop takes as a failure (exitCode !== 0).
NonZero == {"1", "null"}

\* The event that follows events[i] and carries the stored task.
StoredAfter(i) ==
  IF events[i + 1].type = "task:updated" THEN events[i + 1].payload ELSE events[i + 2].payload

\* C3: the final iteration count of a loop run, as written to
\* ralph_current_iteration and as carried by ralph:complete, is at most the
\* run's max_iterations, and is max_iterations when the reason is max_reached.
C3_FinalIterationBounded ==
  /\ \A r \in LoopRuns :
       /\ runs[r].currentIteration <= runs[r].maxIterations
       /\ runs[r].pc = "done" /\ runs[r].finalReason = "max_reached"
            => runs[r].currentIteration = runs[r].maxIterations
  /\ \A i \in 1..Len(events) :
       events[i].type = "ralph:complete" =>
         /\ events[i].payload.iteration <= runs[events[i].run].maxIterations
         /\ events[i].payload.reason = "max_reached"
              => events[i].payload.iteration = runs[events[i].run].maxIterations
         /\ StoredAfter(i).exists
              => StoredAfter(i).ralph_current_iteration = events[i].payload.iteration

\* A loop configured with MaxIter iterations has used them all and reported
\* max_reached with that count.
C3_Witness ==
  \E i \in 1..Len(events) :
    /\ events[i].type = "ralph:complete"
    /\ events[i].payload = [iteration |-> MaxIter, reason |-> "max_reached"]
    /\ StoredAfter(i).exists
    /\ StoredAfter(i).ralph_current_iteration = MaxIter

\* C4: when iteration k < max_iterations of a loop that was not cancelled ends
\* with a non-zero exit code and without a matching promise, the loop goes on:
\* the counter becomes k+1 and a new process is spawned for the run.
C4_NonZeroExitContinues ==
  [][\A r \in LoopRuns : \A pid \in Pids :
       ( /\ IterationEnds(r, pid)
         /\ procs'[pid].exitCode \in NonZero
         /\ ~checkCompletionPromise(procs'[pid].fullOutput, runs[r].completionPromise)
         /\ ~runs[r].cancelCalled
         /\ runs[r].currentIteration < runs[r].maxIterations )
       => /\ runs'[r].pc = "await"
          /\ runs'[r].currentIteration = runs[r].currentIteration + 1
          /\ Spawned(r)]_vars

\* A loop that was never cancelled is in its second iteration after a first
\* one whose process exited with code 1.
C4_Witness ==
  \E r \in LoopRuns : \E pid \in Pids :
    /\ ~runs[r].cancelCalled
    /\ runs[r].currentIteration = 2
    /\ procs[pid].run = r
    /\ procs[pid].exitCode = "1"
    /\ runs[r].proc > pid
    /\ procs[runs[r].proc].state = "running"

\* The ralph:complete events that run r emits in the step.
CompletesWith(r, iteration, reason) ==
  \E i \in (Len(events) + 1)..Len(events') :
    /\ events'[i].type = "ralph:complete"
    /\ events'[i].run = r
    /\ events'[i].payload = [iteration |-> iteration, reason |-> reason]

\* C5: the loop stops at the first iteration whose output carries a promise
\* tag matching the run's token: nothing is spawned, no later iteration is ever
\* counted, the reason is promise_fulfilled and the stored task (when the
\* record still exists) gets ralph_status completed and status done.
C5_StopsAtFirstPromise ==
  [][\A r \in LoopRuns :
       /\ \A pid \in Pids :
            ( /\ IterationEnds(r, pid)
              /\ checkCompletionPromise(procs'[pid].fullOutput, runs[r].completionPromise) )
            => /\ runs'[r].pc = "done"
               /\ runs'[r].finalReason = "promise_fulfilled"
               /\ runs'[r].currentIteration = runs[r].currentIteration
               /\ Len(procs') = Len(procs)
               /\ CompletesWith(r, runs[r].currentIteration, "promise_fulfilled")
               /\ db'[runs[r].task].exists =>
                    /\ db'[runs[r].task].ralph_status = "completed"
                    /\ db'[runs[r].task].status = "done"
       /\ runs[r].pc = "done" => runs'[r] = runs[r]]_vars

\* A loop ended as fulfilled before it had used all its iterations, and the
\* stored task is done and completed.
C5_Witness ==
  \E r \in LoopRuns :
    /\ runs[r].pc = "done"
    /\ runs[r].finalReason = "promise_fulfilled"
    /\ runs[r].currentIteration < runs[r].maxIterations
    /\ db[runs[r].task].status = "done"
    /\ db[runs[r].task].ralph_status = "completed"

\* C6: when the last of max_iterations iterations of a loop that was not
\* cancelled ends without a matching promise, the loop ends with reason
\* max_reached and count max_iterations, and the stored status is the one the
\* loop started with, in_progress.
C6_ExhaustionIsMaxReached ==
  [][\A r \in LoopRuns : \A pid \in Pids :
       ( /\ IterationEnds(r, pid)
         /\ runs[r].currentIteration = runs[r].maxIterations
         /\ ~checkCompletionPromise(procs'[pid].fullOutput, runs[r].completionPromise)
         /\ ~runs[r].cancelCalled )
       => /\ runs'[r].pc = "done"
          /\ runs'[r].finalReason = "max_reached"
          /\ runs'[r].currentIteration = runs[r].maxIterations
          /\ CompletesWith(r, runs[r].maxIterations, "max_reached")
          /\ db'[runs[r].task].exists
          /\ db'[runs[r].task].status = "in_progress"
          /\ db'[runs[r].task].status = runs[r].taskStatus
          /\ db'[runs[r].task].ralph_current_iteration = runs[r].maxIterations]_vars

\* A loop of MaxIter iterations that was never cancelled has ended, none of its
\* processes printed a matching promise, and the task is still in progress.
C6_Witness ==
  \E r \in LoopRuns :
    /\ runs[r].pc = "done"
    /\ ~runs[r].cancelCalled
    /\ runs[r].maxIterations = MaxIter
    /\ runs[r].finalReason = "max_reached"
    /\ \A pid \in Pids : procs[pid].run = r =>
         ~checkCompletionPromise(procs[pid].fullOutput, runs[r].completionPromise)
    /\ Cardinality({pid \in Pids : procs[pid].run = r}) = MaxIter
    /\ db[runs[r].task].status = "in_progress"

\* C7: once cancelRalphLoop was called while a loop run awaited its iteration,
\* that run counts no further iteration and spawns no further process.
C7_NoIterationAfterCancel ==
  [][\A r \in LoopRuns :
       runs[r].cancelCalled =>
         /\ runs'[r].currentIteration = runs[r].currentIteration
         /\ runs'[r].proc = runs[r].proc]_vars

\* C8: a loop run that cancelRalphLoop was called on while an iteration was in
\* flight ends with reason cancelled, whichever iteration that was.
C8_CancelledLoopEndsCancelled ==
  \A r \in LoopRuns :
    runs[r].pc = "done" /\ runs[r].cancelCalled => runs[r].finalReason = "cancelled"

\* The claude:complete events of run r in the event log ev.
CompleteEvents(ev, r) ==
  {i \in 1..Len(ev) : ev[i].type = "claude:complete" /\ ev[i].run = r}

\* C10: when the process of a startClaudeTask run closes with code 0, the
\* stored task (when the record still exists) has status done and the
\* process's whole output as claude_output, and the run has emitted exactly one
\* claude:complete; no single-shot run ever emits two.
C10_ExitZeroCompletes ==
  [][/\ \A pid \in Pids :
          ( /\ runs[procs[pid].run].kind = "single"
            /\ procs[pid].state # "closed"
            /\ procs'[pid].state = "closed"
            /\ procs'[pid].exitCode = "0" )
          => /\ Cardinality(CompleteEvents(events', procs[pid].run)) = 1
             /\ events'[Len(events')].run = procs[pid].run
             /\ db'[procs[pid].task].exists =>
                  /\ db'[procs[pid].task].status = "done"
                  /\ db'[procs[pid].task].claude_output = procs[pid].fullOutput
                  /\ events'[Len(events')].payload = db'[procs[pid].task]
     /\ \A r \in SingleRuns : Cardinality(CompleteEvents(events', r)) <= 1]_vars

\* A single-shot run whose process printed output and closed with code 0: the
\* task is done and stores that output, and one claude:complete was emitted.
C10_Witness ==
  \E pid \in Pids :
    /\ runs[procs[pid].run].kind = "single"
    /\ procs[pid].state = "closed"
    /\ procs[pid].exitCode = "0"
    /\ procs[pid].fullOutput # <<>>
    /\ db[procs[pid].task].status = "done"
    /\ db[procs[pid].task].claude_output = procs[pid].fullOutput
    /\ Cardinality(CompleteEvents(events, procs[pid].run)) = 1

\* s is a proper or improper prefix of t.
IsPrefix(s, t) == Len(s) <= Len(t) /\ SubSeq(t, 1, Len(s)) = s

\* The lexemes of the text t that come after its first n lexemes.
TailFrom(t, n) == {t[i] : i \in (n + 1)..Len(t)}

\* The step is the close callback of process pid of a single-shot run.
SingleCloses(pid) ==
  /\ runs[procs[pid].run].kind = "single"
  /\ procs[pid].state # "closed"
  /\ procs'[pid].state = "closed"

\* C11: when the process of a startClaudeTask run closes with a non-zero code,
\* the stored claude_output (when the record still exists) is the output
\* captured so far followed by an annotation that names the exit code, the
\* stored status is what it was, and the run has emitted no claude:complete.
C11_NonZeroExitKeepsStatus ==
  [][\A pid \in Pids :
       ( SingleCloses(pid) /\ procs'[pid].exitCode \in NonZero )
       => /\ CompleteEvents(events', procs[pid].run) = {}
          /\ db'[procs[pid].task].status = db[procs[pid].task].status
          /\ db'[procs[pid].task].exists =>
               /\ IsPrefix(procs[pid].fullOutput, db'[procs[pid].task].claude_output)
               /\ procs'[pid].exitCode
                    \in TailFrom(db'[procs[pid].task].claude_output, Len(procs[pid].fullOutput))]_vars

\* A single-shot process printed output and closed with code 1: the task is
\* still in progress and stores the output with the annotation.
C11_Witness ==
  \E pid \in Pids :
    /\ runs[procs[pid].run].kind = "single"
    /\ procs[pid].state = "closed"
    /\ procs[pid].exitCode = "1"
    /\ ~procs[pid].spawnFailed
    /\ IsPrefix(<<"<promise>">>, procs[pid].fullOutput)
    /\ db[procs[pid].task].status = "in_progress"
    /\ db[procs[pid].task].claude_output = procs[pid].fullOutput
    /\ "1" \in TailFrom(procs[pid].fullOutput, 4)
    /\ CompleteEvents(events, procs[pid].run) = {}

\* C12: a cancel leaves no registry entry behind: the token registered for a
\* task is never one that cancelRalphLoop has flagged, and the process
\* registered for a task is never one that was sent SIGTERM, so that after a
\* cancel neither isRalphLoopRunning nor isTaskRunning reports the task.
C12_CancelRemovesEntries ==
  \A t \in TaskIds :
    /\ activeRalphLoops[t] # 0 => ~cancelled[activeRalphLoops[t]]
    /\ activeProcesses[t] # 0 => procs[activeProcesses[t]].state # "killed"

\* No run of the task is under way: every startClaudeTask and runRalphLoop
\* call for it has returned.
NoActiveRun(t) == \A r \in 1..Len(runs) : runs[r].task = t => runs[r].pc = "done"

\* The step is a DELETE of task t.
Deletes(t) == db[t].exists /\ ~db'[t].exists

\* C13: with no run active for a task, cancelClaudeTask and cancelRalphLoop
\* return false and change nothing; the DELETE handler, which calls both,
\* then leaves registries, runs, processes and events as they were.
C13_IdleCancelIsNoOp ==
  /\ \A t \in TaskIds :
       NoActiveRun(t) =>
         /\ ~cancelClaudeTaskResult(Cur, t)
         /\ ~cancelRalphLoopResult(Cur, t)
         /\ cancelClaudeTask(Cur, t) = Cur
         /\ cancelRalphLoop(Cur, t) = Cur
         /\ deleteTaskRoute(Cur, t).events = events
         /\ deleteTaskRoute(Cur, t).runs = runs
         /\ deleteTaskRoute(Cur, t).procs = procs

\* The task was deleted after its loop had ended without ever being
\* cancelled: the DELETE handler called both cancels with no run active.
C13_Witness ==
  \E t \in TaskIds :
    /\ ~db[t].exists
    /\ runs # <<>>
    /\ \A r \in 1..Len(runs) :
         runs[r].kind = "loop" /\ runs[r].pc = "done" /\ ~runs[r].cancelCalled
    /\ \A pid \in Pids : procs[pid].state = "closed" /\ procs[pid].exitCode # "null"
    /\ activeProcesses[t] = 0
    /\ activeRalphLoops[t] = 0

\* The runs started for task t.
RunsOf(t) == {r \in 1..Len(runs) : runs[r].task = t}

\* C14: once every run started for a task has ended, by whatever exit path
\* (a storage fault among them), neither activeProcesses nor activeRalphLoops
\* holds an entry for the task.
C14_EndedRunLeavesNoEntry ==
  \A t \in TaskIds :
    RunsOf(t) # {} /\ (\A r \in RunsOf(t) : runs[r].pc # "await")
      => activeProcesses[t] = 0 /\ activeRalphLoops[t] = 0

\* The ralph:complete events of run r in the event log ev.
RalphCompleteEvents(ev, r) ==
  {i \in 1..Len(ev) : ev[i].type = "ralph:complete" /\ ev[i].run = r}

\* C15: no startClaudeTask or runRalphLoop call ends with an exception or a
\* rejected promise, whatever storage write fails, and every loop that has
\* ended has emitted its ralph:complete.
C15_NeverThrows ==
  \A r \in 1..Len(runs) :
    /\ runs[r].pc \in {"await", "done"}
    /\ runs[r].kind = "loop" /\ runs[r].pc = "done"
         => RalphCompleteEvents(events, r) # {}

\* The loop lifecycle events, which carry the task id and no run id.
IsLifecycle(e) ==
  e.type \in {"ralph:iteration_start", "ralph:iteration_complete", "ralph:complete"}

\* The lifecycle events of task t, in the order of emission.
IsLifecycleOf(t, e) == IsLifecycle(e) /\ runs[e.run].task = t
LifecycleStream(t) ==
  LET keep == {i \in 1..Len(events) : IsLifecycleOf(t, events[i])}
      nth[k \in 0..Cardinality(keep)] ==
        IF k = 0 THEN 0 ELSE MinOf({i \in keep : i > nth[k - 1]})
  IN [k \in 1..Cardinality(keep) |-> events[nth[k]]]

\* Event b may directly follow event a in the stream of one task.
MayFollow(a, b) ==
  CASE a.type = "ralph:iteration_start" ->
         \/ b.type = "ralph:iteration_complete" /\ b.payload.iteration = a.payload.iteration
         \/ b.type = "ralph:complete"
    [] a.type = "ralph:iteration_complete" ->
         \/ b.type = "ralph:iteration_start" /\ b.payload.iteration = a.payload.iteration + 1
         \/ b.type = "ralph:complete"
    [] a.type = "ralph:complete" ->
         b.type = "ralph:iteration_start" /\ b.payload.iteration = 1

\* C16: the lifecycle events of one task id are in strict causal order:
\* iteration_start(i), iteration_complete(i), iteration_start(i+1), ...,
\* ralph:complete, and after a ralph:complete only the iteration_start(1) of a
\* later run, whatever the sequence of starts and cancels.
C16_LifecycleOrder ==
  \A t \in TaskIds :
    LET stream == LifecycleStream(t)
    IN /\ stream # <<>> =>
            stream[1].type = "ralph:iteration_start" /\ stream[1].payload.iteration = 1
       /\ \A k \in 1..(Len(stream) - 1) : MayFollow(stream[k], stream[k + 1])

\* The events emitted in the step.
NewEvents == {i \in (Len(events) + 1)..Len(events') : TRUE}

\* The stored task of the run that emitted event e, as an observer reads it
\* once the callback that emitted e has returned.
StoredFor(e) == db'[runs'[e.run].task]

\* What the stored task must hold for event e to be backed by storage.
BackedByStorage(e) ==
  CASE e.type = "ralph:iteration_start" ->
         StoredFor(e).ralph_current_iteration = e.payload.iteration
    [] e.type = "ralph:complete" ->
         /\ StoredFor(e).ralph_current_iteration = e.payload.iteration
         /\ StoredFor(e).claude_output = runs'[e.run].allOutput
         /\ StoredFor(e).ralph_status =
              (CASE e.payload.reason = "promise_fulfilled" -> "completed"
                 [] e.payload.reason = "max_reached" -> "max_reached"
                 [] OTHER -> "cancelled")
         /\ e.payload.reason = "promise_fulfilled" => StoredFor(e).status = "done"
    [] e.type = "claude:complete" ->
         /\ StoredFor(e).status = "done"
         /\ StoredFor(e).claude_output = e.payload.result
    [] OTHER -> TRUE

\* C17: a lifecycle event is emitted after the write it refers to: when the
\* callback that emitted ralph:iteration_start(i), ralph:complete or
\* claude:complete returns, the stored task (when the record exists) holds the
\* iteration counter, the final fields, or status done with the output.
C17_WriteBeforeEvent ==
  [][\A i \in NewEvents :
       StoredFor(events'[i]).exists => BackedByStorage(events'[i])]_vars

\* A loop has announced its second iteration and then its fulfilment, and the
\* stored task holds the count and the output the events refer to.
C17_Witness ==
  \E i, j, k \in 1..Len(events) :
    /\ i < j /\ k = j + 1
    /\ events[i].type = "ralph:iteration_start" /\ events[i].payload.iteration = 2
    /\ events[j].type = "ralph:complete" /\ events[j].run = events[i].run
    /\ events[j].payload = [iteration |-> 2, reason |-> "promise_fulfilled"]
    /\ events[k].type = "claude:complete"
    /\ db[runs[events[j].run].task].ralph_current_iteration = 2
    /\ db[runs[events[j].run].task].claude_output = events[k].payload.result
    /\ db[runs[events[j].run].task].status = "done"

\* The step is a close or error callback of some process.
ProcessCallback ==
  \E pid \in Pids :
    /\ procs'[pid].state # procs[pid].state
    /\ procs'[pid].state \in {"closed", "errored"}

\* The step starts a loop run.
LoopStarts == Len(runs') = Len(runs) + 1 /\ runs'[Len(runs')].kind = "loop"

\* The last event emitted is a task:updated that carries the task as stored.
AnnouncedLast(t) ==
  /\ events' # events
  /\ events'[Len(events')].type = "task:updated"
  /\ events'[Len(events')].payload = db'[t]

\* C18: every write the orchestrator makes to a task is followed by a
\* task:updated event carrying the stored task: a callback of a run in which
\* the stored task changed ends with that event.
C18_WritesAreAnnounced ==
  [][\A t \in TaskIds :
       (ProcessCallback \/ LoopStarts) /\ db'[t] # db[t] => AnnouncedLast(t)]_vars

\* C19: a loop run that has ended has emitted exactly one ralph:complete,
\* which carries its terminal reason and its final iteration count, and one
\* claude:complete when that reason is promise_fulfilled, none otherwise; a
\* loop run that has not ended has emitted neither.
C19_OneRalphComplete ==
  \A r \in LoopRuns :
    /\ runs[r].pc = "await" =>
         RalphCompleteEvents(events, r) = {} /\ CompleteEvents(events, r) = {}
    /\ runs[r].pc = "done" =>
         /\ Cardinality(RalphCompleteEvents(events, r)) = 1
         /\ \A i \in RalphCompleteEvents(events, r) :
              events[i].payload = [iteration |-> runs[r].currentIteration,
                                   reason |-> runs[r].finalReason]
         /\ Cardinality(CompleteEvents(events, r)) =
              (IF runs[r].finalReason = "promise_fulfilled" THEN 1 ELSE 0)

\* A loop was cancelled during its first iteration and has ended: it emitted
\* one ralph:complete, with reason cancelled and count 1, and no claude:complete.
C19_Witness ==
  \E r \in LoopRuns :
    /\ runs[r].pc = "done"
    /\ runs[r].finalReason = "cancelled"
    /\ \E i \in 1..Len(events) :
         /\ RalphCompleteEvents(events, r) = {i}
         /\ events[i].payload = [iteration |-> 1, reason |-> "cancelled"]
    /\ CompleteEvents(events, r) = {}

AnalysisEnded == analysis.proc \in {"closed", "errored"}

\* C20: once the 'close' or the 'error' callback of an analysis has run, the
\* promise is resolved with one record per requested task, in request order,
\* each with the requested title; on the parsed path a task the agent omitted
\* has the default record (unknown, low, 'Not analyzed').
C20_OneResultPerTask ==
  AnalysisEnded =>
    /\ analysis.settled
    /\ Len(analysis.value) = Len(analysis.tasks)
    /\ \A i \in 1..Len(analysis.tasks) :
         /\ analysis.value[i].taskTitle = analysis.tasks[i].title
         /\ \/ analysis.value[i].status = "unknown" /\ analysis.value[i].confidence = "low"
            \/ \E k \in 1..Len(analysis.fullOutput) :
                 /\ analysis.fullOutput[k].value # NotJson
                 /\ \E j \in 1..Len(analysis.fullOutput[k].value.results) :
                      analysis.fullOutput[k].value.results[j] = analysis.value[i]

\* The promise is resolved with one fallback record per task: status unknown,
\* confidence low, some evidence text.
FallbackResolved(a) ==
  /\ a.settled
  /\ Len(a.value) = Len(a.tasks)
  /\ \A i \in 1..Len(a.value) :
       /\ a.value[i].status = "unknown"
       /\ a.value[i].confidence = "low"
       /\ a.value[i].evidence # ""

\* C21: a 'close' callback that runs after the timeout fired, or with a
\* non-zero exit code, or with output that does not parse, leaves the promise
\* resolved with fallback records only; after the timeout every record's
\* evidence is the timeout text, whatever the exit code and the output.
C21_FallbackIsUnknown ==
  [][\A code \in ExitCodes \cup {"-2"} :
       /\ AnalysisClose(code)
       /\ \/ analysis.timedOut
          \/ code # "0"
          \/ ~parseAnalysisOutput(analysis.fullOutput).ok
       => /\ FallbackResolved(analysis')
          /\ analysis.timedOut =>
               \A i \in 1..Len(analysis'.value) :
                 analysis'.value[i].evidence = "Analysis timed out"]_vars

\* The timeout fired on a process that had printed a complete answer for the
\* requested task; the call resolved with the timeout record all the same.
C21_Witness ==
  /\ analysis.timedOut
  /\ analysis.proc = "closed"
  /\ analysis.settled
  /\ parseAnalysisOutput(analysis.fullOutput).ok
  /\ parseAnalysisOutput(analysis.fullOutput).results
       = <<found(analysis.tasks[1].title)>>
  /\ analysis.value[1].evidence = "Analysis timed out"

HasTag(output) == tagSpan(output).from # 0

Interior(output) ==
  SubSeq(output, tagSpan(output).from + 1, tagSpan(output).to - 1)

Blank(token) == trim(token) = <<>>

\* The result of a call on arguments changed in case or in white space around
\* the interior is the result of the call before.
SameResultAfterEdit ==
  detect.pc = "returned" /\ detect'.pc = "returned"
    => detect'.result = detect.result

FirstOpen(output) == MinOf({i \in 1..Len(output) : output[i] \in OpenMarkers})
FirstClose(output) ==
  MinOf({j \in (FirstOpen(output) + 1)..Len(output) : output[j] \in CloseMarkers})
HasSpan(output) ==
  \E i \in 1..Len(output) :
    /\ output[i] \in OpenMarkers
    /\ \E j \in (i + 1)..Len(output) : output[j] \in CloseMarkers
FirstInterior(output) ==
  SubSeq(output, FirstOpen(output) + 1, FirstClose(output) - 1)
Matches(interior, expected) ==
  toLowerCase(trim(interior)) = toLowerCase(trim(expected))

\* C23: when the interior of the first span of the output does not match the
\* expected token, the result is false, whatever follows that span.
C23_OnlyFirstTagCounts ==
  detect.pc = "returned" /\ HasSpan(detect.output)
    /\ ~Matches(FirstInterior(detect.output), detect.expected)
  => ~detect.result

\* The first tag holds another token and the second tag holds the expected
\* one: the result is false.
C23_Witness ==
  /\ detect.pc = "returned"
  /\ Len(detect.output) = 6
  /\ HasSpan(detect.output)
  /\ ~Matches(FirstInterior(detect.output), detect.expected)
  /\ detect.output[4] \in OpenMarkers
  /\ detect.output[6] \in CloseMarkers
  /\ Matches(<<detect.output[5]>>, detect.expected)
  /\ ~detect.result

\* A step of the program on behalf of task a: a request for a, or a callback
\* of a process spawned for a.
ActsFor(a) ==
  \/ PatchStart(a)
  \/ PatchStop(a)
  \/ DeleteTask(a)
  \/ \E pid \in Pids :
       /\ procs[pid].task = a
       /\ StdoutData(pid) \/ StderrData(pid) \/ ProcClose(pid) \/ ProcError(pid)

\* Nothing that belongs to task b changes: its registry entries, its stored
\* fields, its runs (iteration counter, terminal reason), their cancellation
\* flags and its processes; no event of a run of b is emitted.
Untouched(b) ==
  /\ activeProcesses'[b] = activeProcesses[b]
  /\ activeRalphLoops'[b] = activeRalphLoops[b]
  /\ db'[b] = db[b]
  /\ \A r \in 1..Len(runs) :
       runs[r].task = b => runs'[r] = runs[r] /\ cancelled'[r] = cancelled[r]
  /\ \A r \in (Len(runs) + 1)..Len(runs') : runs'[r].task # b
  /\ \A pid \in Pids : procs[pid].task = b => procs'[pid] = procs[pid]
  /\ \A i \in (Len(events) + 1)..Len(events') :
       events'[i].run # 0 => runs'[events'[i].run].task # b

\* C24: a step on behalf of one task id leaves everything of the other task
\* id as it was.
C24_TasksAreIndependent ==
  [][\A a \in TwoTaskIds : ActsFor(a) =>
       \A b \in TwoTaskIds \ {a} : Untouched(b)]_vars

\* Two loops ran side by side; the loop of t1 was cancelled and has ended,
\* the loop of t2 is still in its iteration, registered and not cancelled.
C24_Witness ==
  \E r1, r2 \in LoopRuns :
    /\ runs[r1].task = "t1" /\ runs[r2].task = "t2"
    /\ runs[r1].pc = "done" /\ runs[r1].finalReason = "cancelled"
    /\ runs[r2].pc = "await" /\ ~cancelled[r2]
    /\ activeRalphLoops["t2"] = r2
    /\ activeProcesses["t2"] = runs[r2].proc

\* C25: the error callback of the process of iteration k of a loop resolves
\* the iteration with a non-zero exit code, the iteration is reported as
\* complete, the loop does not end with reason error, and iteration k + 1 is
\* started when k < maxIterations and the loop is not cancelled; the close
\* callback that follows the error does not resolve the iteration again.
C25_SpawnFailureIsOneIteration ==
  [][\A pid \in Pids :
       LET r == procs[pid].run
           k == runs[r].currentIteration
       IN runs[r].kind = "loop" =>
            /\ ProcError(pid) =>
                 /\ procs'[pid].settled
                 /\ procs'[pid].exitCode \notin {"0", "none"}
                 /\ \E i \in NewEvents :
                      /\ events'[i].type = "ralph:iteration_complete"
                      /\ events'[i].run = r
                      /\ events'[i].payload.iteration = k
                 /\ ~(runs'[r].pc = "done" /\ runs'[r].finalReason = "error")
                 /\ k < runs[r].maxIterations /\ ~cancelled[r] =>
                      /\ runs'[r].pc = "await"
                      /\ runs'[r].currentIteration = k + 1
                      /\ Len(procs') = Len(procs) + 1
                      /\ procs'[Len(procs')].run = r
            /\ ProcClose(pid) /\ procs[pid].settled =>
                 runs' = runs /\ Len(events') = Len(events)]_vars

\* The process of iteration 1 could not be spawned and the loop went on: it
\* is in iteration 2 with a second process.
C25_Witness ==
  \E r \in LoopRuns, p1, p2 \in Pids :
    /\ procs[p1].run = r /\ procs[p2].run = r /\ p1 < p2
    /\ procs[p1].state = "errored"
    /\ procs[p1].exitCode = "1"
    /\ runs[r].pc = "await"
    /\ runs[r].currentIteration = 2

\* C26: the step in which a loop ends writes status done when its reason is
\* promise_fulfilled and leaves the stored status as it was for every other
\* reason.
C26_OnlyFulfilledChangesStatus ==
  [][\A r \in 1..Len(runs) :
       /\ runs[r].kind = "loop"
       /\ runs[r].pc = "await"
       /\ runs'[r].pc = "done"
       /\ db[runs[r].task].exists
       => IF runs'[r].finalReason = "promise_fulfilled"
          THEN db'[runs[r].task].status = "done"
          ELSE db'[runs[r].task].status = db[runs[r].task].status]_vars

\* C27: the promiseFound value reported for an iteration is the detector's
\* verdict on the output of that iteration's process alone, against the token
\* the loop was configured with.
C27_DetectsIterationOutputOnly ==
  [][\A i \in NewEvents :
       events'[i].type = "ralph:iteration_complete" =>
         LET r == events'[i].run
         IN events'[i].payload.promiseFound =
              checkCompletionPromise(procs'[runs[r].proc].fullOutput,
                                     runs[r].completionPromise)]_vars

\* Iteration 1 printed a tag with another token, iteration 2 printed the tag
\* with the loop's token: iteration 2 was reported with promiseFound true,
\* although the transcript's first tag does not match.
C27_Witness ==
  \E r \in LoopRuns :
    /\ runs[r].pc = "done"
    /\ runs[r].currentIteration = 2
    /\ runs[r].finalReason = "promise_fulfilled"
    /\ ~checkCompletionPromise(runs[r].allOutput, runs[r].completionPromise)
    /\ \E i \in 1..Len(events) :
         /\ events[i].type = "ralph:iteration_complete"
         /\ events[i].run = r
         /\ events[i].payload = [iteration |-> 2, promiseFound |-> TRUE]

\* C28: the token written into the instruction of every iteration's process
\* is the token the loop's detector compares the output with.
C28_PromptTokenIsDetectorToken ==
  \A pid \in Pids :
    runs[procs[pid].run].kind = "loop" =>
      procs[pid].promptToken = runs[procs[pid].run].completionPromise

\* C29: while a loop run has not ended, isRalphLoopRunning reports its task, a
\* cancelRalphLoop call raises the flag the loop reads at its next poll, and a
\* loop whose own flag was raised reads a raised flag at its next poll,
\* whatever loops were started for the task since.
C29_RunningLoopIsCancellable ==
  \A r \in LoopRuns :
    runs[r].pc = "await" =>
      /\ isRalphLoopRunning(Cur, runs[r].task)
      /\ loopStateCancelled(cancelRalphLoop(Cur, runs[r].task), runs[r].task)
      /\ cancelled[r] => loopStateCancelled(Cur, runs[r].task)

\* C30: the close callback of a single-shot run's process that
\* cancelClaudeTask has sent SIGTERM neither sets the stored status to done
\* nor emits claude:complete.
C30_CancelledSingleNeverCompletes ==
  [][\A pid \in Pids :
       /\ runs[procs[pid].run].kind = "single"
       /\ procs[pid].state = "killed"
       /\ procs'[pid].state = "closed"
       => /\ db'[procs[pid].task].status = "done"
               => db[procs[pid].task].status = "done"
          /\ \A i \in NewEvents :
               ~(events'[i].type = "claude:complete" /\ events'[i].run = procs[pid].run)]_vars

====
